---- MODULE Spec2Model ----
(***************************************************************************)
(* Model of src/util/address.rs (Base58 layouts of addresses and private   *)
(* keys, script_pubkey, key-to-address derivation) and of                  *)
(* units/src/locktime/mtp_height.rs (MtpAndHeight::new).                   *)
(*                                                                         *)
(* All operations are pure functions.  The state records the last          *)
(* operation that was invoked, its arguments and its result.  Byte vectors *)
(* are sequences of integers in 0..255 with their real lengths (21, 33,    *)
(* 34, ...); Rust's 0-based index i is position i+1 of the sequence.       *)
(* A Rust panic (out-of-bounds index or slice, failed assert) is the       *)
(* result tag "Panic".                                                     *)
(***************************************************************************)
EXTENDS Integers, Sequences, FiniteSets, TLC

VARIABLES op, arg, res

vars == <<op, arg, res>>

----------------------------------------------------------------------------
(* Bounds of the exploration *)

\* payloads handed to the decoders have every length 0..MaxLen
MaxLen == 35

\* block timestamps of the repeated-value inputs range over 0..MaxTime
MaxTime == 2

----------------------------------------------------------------------------
(* Values *)

Byte == 0..255

Networks == {"Bitcoin", "Testnet"}

Types == {"PubkeyHash", "ScriptHash"}

\* the bytes used to fill payload bodies, hashes and secrets
FillBytes == {0, 1, 255}

\* last bytes of generated payloads (the compression-flag position)
LastBytes == {1, 2}

PatternSeq(n, pos, b, c) ==
    [i \in 1..n |-> IF i = pos THEN b ELSE c]

HASH160_LEN == 20

SECRET_KEY_LEN == 32

\* order of the secp256k1 group, big-endian
CurveOrder ==
    << 255, 255, 255, 255, 255, 255, 255, 255,
       255, 255, 255, 255, 255, 255, 255, 254,
       186, 174, 220, 230, 175,  72, 160,  59,
       191, 210,  94, 140, 208,  54,  65,  65 >>

CurveOrderMinus1 ==
    [CurveOrder EXCEPT ![32] = 64]

CurveOrderPlus1 ==
    [CurveOrder EXCEPT ![32] = 66]

\* big-endian comparison of two byte strings of the same length
LexLess(a, b) ==
    \E i \in 1..Len(a) :
        /\ a[i] < b[i]
        /\ \A j \in 1..(i - 1) : a[j] = b[j]

IsZero(s) ==
    \A i \in 1..Len(s) : s[i] = 0

Ok(v) ==
    [tag |-> "Ok", val |-> v]

Err(e) ==
    [tag |-> "Err", err |-> e]

\* results of the decoders also carry the indices of the payload they read
OkR(v, reads) ==
    [tag |-> "Ok", val |-> v, reads |-> reads]

ErrR(e, reads) ==
    [tag |-> "Err", err |-> e, reads |-> reads]

\* a Rust panic; reads holds the indices read or attempted
PanicR(reads) ==
    [tag |-> "Panic", reads |-> reads]

InvalidLength(n) ==
    [kind |-> "InvalidLength", len |-> n]

InvalidVersion(v) ==
    [kind |-> "InvalidVersion", bytes |-> v]

Other(s) ==
    [kind |-> "Other", msg |-> s]

----------------------------------------------------------------------------
(* Vec<u8> indexing and slicing; the guards are Rust's bounds checks *)

\* data[i] is in bounds
InBounds(data, i) ==
    i < Len(data)

\* &data[lo..hi] is in bounds
SliceInBounds(data, lo, hi) ==
    lo <= hi /\ hi <= Len(data)

\* &data[lo..hi], 0-based and half-open
Slice(data, lo, hi) ==
    [i \in 1..(hi - lo) |-> data[lo + i]]

----------------------------------------------------------------------------
(* External capabilities: util::hash::Hash160 and the secp256k1 crate *)

RECURSIVE SumBytes(_)
SumBytes(s) ==
    IF s = <<>> THEN 0 ELSE (s[1] + SumBytes(Tail(s))) % 65536

\* Hash160::from_data: a 20-byte digest of the input bytes.  The digest is a
\* stand-in for RIPEMD160(SHA256(.)); it depends on the content and on the
\* length of the input.
Hash160_from_data(bytes) ==
    [i \in 1..HASH160_LEN |->
        (SumBytes(bytes) * i + 7 * Len(bytes) + 13 * i) % 256]

\* Hash160::from(&[u8]) copies a slice of exactly 20 bytes (asserted)
Hash160_from_ok(slice) ==
    Len(slice) = HASH160_LEN

\* variant: the upper bound of the scalar is not checked
SecretKey_from_slice_ok_nonzero(slice) ==
    /\ Len(slice) = SECRET_KEY_LEN
    /\ ~IsZero(slice)

\* SecretKey::from_slice: 32 bytes, nonzero and below the group order
SecretKey_from_slice_ok(slice) ==
    /\ Len(slice) = SECRET_KEY_LEN
    /\ ~IsZero(slice)
    /\ LexLess(slice, CurveOrder)

\* capabilities of a Secp256k1 context
Caps == {"None", "SignOnly", "VerifyOnly", "Full"}

\* PublicKey::from_secret_key fails with IncapableContext unless the context
\* can sign
CanSign(caps) ==
    caps \in {"SignOnly", "Full"}

\* PublicKey::from_secret_key: the curve point of a secret (stand-in for the
\* scalar multiplication: a fixed function of the secret's bytes)
PublicKey_from_secret_key(caps, sk) ==
    IF CanSign(caps)
    THEN Ok([x |-> [i \in 1..32 |-> (sk[i] * 3 + i) % 256],
             y |-> [i \in 1..32 |-> (sk[i] * 5 + 2 * i + 1) % 256]])
    ELSE Err([kind |-> "Secp", inner |-> "IncapableContext"])

\* PublicKey::serialize_vec: 33 bytes (02/03 || X) when compressed, else
\* 65 bytes (04 || X || Y)
serialize_vec(pk, compressed) ==
    IF compressed
    THEN <<2 + (pk.y[32] % 2)>> \o pk.x
    ELSE <<4>> \o pk.x \o pk.y

----------------------------------------------------------------------------
(* blockdata::script::Builder and the opcodes used by script_pubkey *)

OP_DUP == 118

OP_HASH160 == 169

OP_EQUALVERIFY == 136

OP_CHECKSIG == 172

OP_EQUAL == 135

push_opcode(script, opcode) ==
    Append(script, opcode)

\* push_slice of fewer than 0x4c bytes: the length byte, then the bytes
push_slice(script, bytes) ==
    (Append(script, Len(bytes))) \o bytes

----------------------------------------------------------------------------
(* impl Address *)

Address(ty, network, hash) ==
    [ty |-> ty, network |-> network, hash |-> hash]

\* variant: the public key is always serialized uncompressed
Address_from_key_uncompressed(network, pk, compressed) ==
    Address("PubkeyHash", network,
            Hash160_from_data(serialize_vec(pk, FALSE)))

Address_from_key(network, pk, compressed) ==
    Address("PubkeyHash", network,
            Hash160_from_data(serialize_vec(pk, compressed)))

\* variant: the P2PKH template ends in OP_EQUAL, OP_CHECKSIG
script_pubkey_equal(self) ==
    IF self.ty = "PubkeyHash"
    THEN push_opcode(
           push_opcode(
             push_slice(
               push_opcode(push_opcode(<<>>, OP_DUP), OP_HASH160),
               self.hash),
             OP_EQUAL),
           OP_CHECKSIG)
    ELSE push_opcode(
           push_slice(push_opcode(<<>>, OP_HASH160), self.hash),
           OP_EQUAL)

script_pubkey(self) ==
    IF self.ty = "PubkeyHash"
    THEN push_opcode(
           push_opcode(
             push_slice(
               push_opcode(push_opcode(<<>>, OP_DUP), OP_HASH160),
               self.hash),
             OP_EQUALVERIFY),
           OP_CHECKSIG)
    ELSE push_opcode(
           push_slice(push_opcode(<<>>, OP_HASH160), self.hash),
           OP_EQUAL)

\* variant: the rows of Bitcoin/ScriptHash and Testnet/PubkeyHash are swapped
Address_version_byte_swapped(network, ty) ==
    CASE network = "Bitcoin" /\ ty = "PubkeyHash" -> 0
      [] network = "Bitcoin" /\ ty = "ScriptHash" -> 111
      [] network = "Testnet" /\ ty = "PubkeyHash" -> 5
      [] network = "Testnet" /\ ty = "ScriptHash" -> 196

\* the match of base58_layout: (network, ty) to version byte
Address_version_byte(network, ty) ==
    CASE network = "Bitcoin" /\ ty = "PubkeyHash" -> 0
      [] network = "Bitcoin" /\ ty = "ScriptHash" -> 5
      [] network = "Testnet" /\ ty = "PubkeyHash" -> 111
      [] network = "Testnet" /\ ty = "ScriptHash" -> 196

Address_base58_layout(self) ==
    <<Address_version_byte(self.network, self.ty)>> \o self.hash

ADDRESS_LAYOUT_LEN == 21

\* variant: only too short payloads are rejected
Address_len_ok_min(n) ==
    n >= ADDRESS_LAYOUT_LEN

\* the length test of Address::from_base58_layout
Address_len_ok(n) ==
    n = ADDRESS_LAYOUT_LEN

\* variant: an unknown version byte defaults to a Bitcoin P2PKH address
Address_match_version_default(x) ==
    CASE x = 5   -> Ok([network |-> "Bitcoin", ty |-> "ScriptHash"])
      [] x = 111 -> Ok([network |-> "Testnet", ty |-> "PubkeyHash"])
      [] x = 196 -> Ok([network |-> "Testnet", ty |-> "ScriptHash"])
      [] OTHER   -> Ok([network |-> "Bitcoin", ty |-> "PubkeyHash"])

\* the match on data[0] of Address::from_base58_layout
Address_match_version(x) ==
    CASE x = 0   -> Ok([network |-> "Bitcoin", ty |-> "PubkeyHash"])
      [] x = 5   -> Ok([network |-> "Bitcoin", ty |-> "ScriptHash"])
      [] x = 111 -> Ok([network |-> "Testnet", ty |-> "PubkeyHash"])
      [] x = 196 -> Ok([network |-> "Testnet", ty |-> "ScriptHash"])
      [] OTHER   -> Err(InvalidVersion(<<x>>))

Address_from_base58_layout(data) ==
    IF ~Address_len_ok(Len(data))
    THEN ErrR(InvalidLength(Len(data)), {})
    ELSE IF ~InBounds(data, 0)
    THEN PanicR({0})
    ELSE LET m == Address_match_version(data[1]) IN
         IF m.tag = "Err"
         THEN ErrR(m.err, {0})
         ELSE IF ~SliceInBounds(data, 1, Len(data))
         THEN PanicR({0, 1})
         ELSE LET h == Slice(data, 1, Len(data)) IN
              IF ~Hash160_from_ok(h)
              THEN PanicR(0..(Len(data) - 1))
              ELSE OkR(Address(m.val.ty, m.val.network, h),
                       0..(Len(data) - 1))

----------------------------------------------------------------------------
(* impl Privkey *)

Privkey(compressed, network, key) ==
    [compressed |-> compressed, network |-> network, key |-> key]

Privkey_from_key(network, sk, compressed) ==
    Privkey(compressed, network, sk)

to_address(self, caps) ==
    LET key == PublicKey_from_secret_key(caps, self.key) IN
    IF key.tag = "Err"
    THEN key
    ELSE Ok(Address_from_key(self.network, key.val, self.compressed))

Privkey_version_byte(network) ==
    CASE network = "Bitcoin" -> 128
      [] network = "Testnet" -> 239

\* variant: the compression flag byte is never appended
Privkey_base58_layout_noflag(self) ==
    <<Privkey_version_byte(self.network)>> \o self.key

Privkey_base58_layout(self) ==
    LET ret == <<Privkey_version_byte(self.network)>> \o self.key IN
    IF self.compressed THEN Append(ret, 1) ELSE ret

\* variant: every length other than 33 is taken as a compressed key
Privkey_match_len_loose(n) ==
    CASE n = 33 -> Ok(FALSE)
      [] OTHER  -> Ok(TRUE)

\* the match on data.len() of Privkey::from_base58_layout
Privkey_match_len(n) ==
    CASE n = 33 -> Ok(FALSE)
      [] n = 34 -> Ok(TRUE)
      [] OTHER  -> Err(InvalidLength(n))

\* the match on data[0] of Privkey::from_base58_layout
Privkey_match_version(x) ==
    CASE x = 128 -> Ok("Bitcoin")
      [] x = 239 -> Ok("Testnet")
      [] OTHER   -> Err(InvalidVersion(<<x>>))

Privkey_from_base58_layout(data) ==
    LET c == Privkey_match_len(Len(data)) IN
    IF c.tag = "Err"
    THEN ErrR(c.err, {})
    ELSE IF ~InBounds(data, 0)
    THEN PanicR({0})
    ELSE LET n == Privkey_match_version(data[1]) IN
         IF n.tag = "Err"
         THEN ErrR(n.err, {0})
         ELSE IF ~SliceInBounds(data, 1, 33)
         THEN PanicR(0..32)
         ELSE LET s == Slice(data, 1, 33) IN
              IF ~SecretKey_from_slice_ok(s)
              THEN ErrR(Other("Secret key out of range"), 0..32)
              ELSE OkR(Privkey(c.val, n.val, s), 0..32)

----------------------------------------------------------------------------
(* impl MtpAndHeight *)

MTP_LEN == 11

\* insert x into the ascending sequence s, keeping it ascending
RECURSIVE Insert(_, _)
Insert(s, x) ==
    IF s = <<>> THEN <<x>>
    ELSE IF x <= s[1] THEN <<x>> \o s
    ELSE <<s[1]>> \o Insert(Tail(s), x)

\* slice::sort_unstable on BlockTime (ascending order of the u32 values)
RECURSIVE sort_unstable(_)
sort_unstable(s) ==
    IF s = <<>> THEN <<>> ELSE Insert(sort_unstable(Tail(s)), s[1])

\* variant: the timestamps are not sorted before the middle one is taken
MtpAndHeight_new_unsorted(height, timestamps) ==
    LET mtp == timestamps[5 + 1]
    IN  [mtp |-> mtp, height |-> height]

MtpAndHeight_new(height, timestamps) ==
    LET mtp_timestamps == sort_unstable(timestamps)
        mtp == mtp_timestamps[5 + 1]
    IN  [mtp |-> mtp, height |-> height]

----------------------------------------------------------------------------
(* Inputs of the operations *)

HashSamples ==
    {PatternSeq(HASH160_LEN, pos, b, c) :
        pos \in 1..HASH160_LEN, b \in FillBytes, c \in FillBytes}

\* 32-byte strings, legal scalars or not
SecretSamples ==
    {PatternSeq(SECRET_KEY_LEN, pos, b, c) :
        pos \in {1, 16, 17, 32}, b \in FillBytes, c \in FillBytes}
    \cup {CurveOrder, CurveOrderMinus1, CurveOrderPlus1}

\* the values a SecretKey can hold
SecretKeys ==
    {s \in SecretSamples : SecretKey_from_slice_ok(s)}

Addresses ==
    {Address(ty, network, hash) :
        ty \in Types, network \in Networks, hash \in HashSamples}

Privkeys ==
    {Privkey(compressed, network, key) :
        compressed \in BOOLEAN, network \in Networks, key \in SecretKeys}

\* first bytes tried at every payload length: the six version bytes, their
\* neighbours and the extremes
VersionSamples ==
    {0, 1, 4, 5, 6, 110, 111, 112, 127, 128, 129,
     195, 196, 197, 238, 239, 240, 255}

Payload(n, v, f, l) ==
    [i \in 1..n |-> IF i = 1 THEN v ELSE IF i = n THEN l ELSE f]

Payloads ==
    {Payload(n, v, f, l) :
        n \in 0..MaxLen, v \in VersionSamples,
        f \in FillBytes, l \in LastBytes}
    \cup {Payload(n, v, 1, 1) : n \in {21, 33, 34}, v \in Byte}
    \cup {<<v>> \o s \o suffix :
            v \in {128, 239}, s \in SecretSamples,
            suffix \in {<<>>, <<0>>, <<1>>}}

Heights == {0, 1000}

\* ascending arrays of 11 timestamps over 0..MaxTime (with duplicates) and
\* ascending arrays of 11 distinct timestamps
SortedTimestamps ==
    {[i \in 1..MTP_LEN |-> Cardinality({j \in 1..MaxTime : c[j] < i})] :
        c \in [1..MaxTime -> 0..MTP_LEN]}
    \cup {[i \in 1..MTP_LEN |-> start + step * (i - 1)] :
            start \in 0..MaxTime, step \in {1, 600}}

\* the permutations i -> a*i + b (mod 11) of the 11 positions
Perms ==
    {[i \in 1..MTP_LEN |-> ((a * (i - 1) + b) % MTP_LEN) + 1] :
        a \in {1, 2, 5, 10}, b \in 0..(MTP_LEN - 1)}

Permute(ts, p) ==
    [i \in 1..MTP_LEN |-> ts[p[i]]]

----------------------------------------------------------------------------
(* The operations.  Each behaviour is one call: the operation is applied  *)
(* to arguments drawn from the input sets and its result is recorded.     *)

Init ==
    /\ op = "init"
    /\ arg = <<>>
    /\ res = <<>>

AddressFromKey ==
    \E network \in Networks, sk \in SecretKeys, compressed \in BOOLEAN :
        LET pk == PublicKey_from_secret_key("Full", sk).val IN
        /\ op = "init"
        /\ op' = "Address::from_key"
        /\ arg' = [network |-> network, pk |-> pk, compressed |-> compressed]
        /\ res' = Address_from_key(network, pk, compressed)

ScriptPubkey ==
    \E a \in Addresses :
        /\ op = "init"
        /\ op' = "Address::script_pubkey"
        /\ arg' = [addr |-> a]
        /\ res' = script_pubkey(a)

AddressBase58Layout ==
    \E a \in Addresses :
        /\ op = "init"
        /\ op' = "Address::base58_layout"
        /\ arg' = [addr |-> a]
        /\ res' = Address_base58_layout(a)

AddressFromBase58Layout ==
    \E data \in Payloads :
        /\ op = "init"
        /\ op' = "Address::from_base58_layout"
        /\ arg' = [data |-> data]
        /\ res' = Address_from_base58_layout(data)

PrivkeyFromKey ==
    \E network \in Networks, sk \in SecretKeys, compressed \in BOOLEAN :
        /\ op = "init"
        /\ op' = "Privkey::from_key"
        /\ arg' = [network |-> network, sk |-> sk, compressed |-> compressed]
        /\ res' = Privkey_from_key(network, sk, compressed)

ToAddress ==
    \E k \in Privkeys, caps \in Caps :
        /\ op = "init"
        /\ op' = "Privkey::to_address"
        /\ arg' = [key |-> k, caps |-> caps]
        /\ res' = to_address(k, caps)

PrivkeyBase58Layout ==
    \E k \in Privkeys :
        /\ op = "init"
        /\ op' = "Privkey::base58_layout"
        /\ arg' = [key |-> k]
        /\ res' = Privkey_base58_layout(k)

PrivkeyFromBase58Layout ==
    \E data \in Payloads :
        /\ op = "init"
        /\ op' = "Privkey::from_base58_layout"
        /\ arg' = [data |-> data]
        /\ res' = Privkey_from_base58_layout(data)

MtpAndHeightNew ==
    \E height \in Heights, base \in SortedTimestamps, p \in Perms :
        LET timestamps == Permute(base, p) IN
        /\ op = "init"
        /\ op' = "MtpAndHeight::new"
        /\ arg' = [height |-> height, timestamps |-> timestamps]
        /\ res' = MtpAndHeight_new(height, timestamps)

Next ==
    \/ AddressFromKey
    \/ ScriptPubkey
    \/ AddressBase58Layout
    \/ AddressFromBase58Layout
    \/ PrivkeyFromKey
    \/ ToAddress
    \/ PrivkeyBase58Layout
    \/ PrivkeyFromBase58Layout
    \/ MtpAndHeightNew

Spec ==
    Init /\ [][Next]_vars

----------------------------------------------------------------------------
(* Properties *)

AddressVersions == {0, 5, 111, 196}

PrivkeyVersions == {128, 239}

\* C1: decoding the layout produced by encoding an Address succeeds and
\* returns an Address equal to the original in ty, network and hash.
C1_AddressRoundTrip ==
    op = "Address::base58_layout" =>
        LET d == Address_from_base58_layout(res) IN
        /\ d.tag = "Ok"
        /\ d.val.ty = arg.addr.ty
        /\ d.val.network = arg.addr.network
        /\ d.val.hash = arg.addr.hash

C1_Witness ==
    /\ op = "Address::base58_layout"
    /\ arg.addr.ty = "ScriptHash"
    /\ arg.addr.network = "Testnet"
    /\ res[1] = 196
    /\ Len(res) = 21

\* C2: decoding the layout produced by encoding a Privkey succeeds and
\* returns the same compressed flag, network and secret; the layout has 33
\* bytes when compressed is false and 34 bytes ending in 1 when it is true.
C2_PrivkeyRoundTrip ==
    op = "Privkey::base58_layout" =>
        LET d == Privkey_from_base58_layout(res) IN
        /\ d.tag = "Ok"
        /\ d.val.compressed = arg.key.compressed
        /\ d.val.network = arg.key.network
        /\ d.val.key = arg.key.key
        /\ ~arg.key.compressed => Len(res) = 33
        /\ arg.key.compressed => Len(res) = 34 /\ res[34] = 1

C2_Witness ==
    /\ op = "Privkey::base58_layout"
    /\ arg.key.compressed
    /\ arg.key.network = "Testnet"
    /\ arg.key.key = CurveOrderMinus1
    /\ Len(res) = 34

\* C3 as stated: every non-empty payload whose first byte is not a version
\* byte of the entity decodes to InvalidVersion carrying that byte.
C3_Original ==
    /\ (op = "Address::from_base58_layout"
          /\ Len(arg.data) > 0 /\ arg.data[1] \notin AddressVersions)
        => (res.tag = "Err" /\ res.err = InvalidVersion(<<arg.data[1]>>))
    /\ (op = "Privkey::from_base58_layout"
          /\ Len(arg.data) > 0 /\ arg.data[1] \notin PrivkeyVersions)
        => (res.tag = "Err" /\ res.err = InvalidVersion(<<arg.data[1]>>))

\* C3 amended: every payload of the entity's length (21 for an Address, 33
\* or 34 for a Privkey) whose first byte is not a version byte of the entity
\* decodes to InvalidVersion carrying that byte, never to a default network
\* or kind.
C3_VersionExhaustive ==
    /\ (op = "Address::from_base58_layout"
          /\ Len(arg.data) = 21 /\ arg.data[1] \notin AddressVersions)
        => (res.tag = "Err" /\ res.err = InvalidVersion(<<arg.data[1]>>))
    /\ (op = "Privkey::from_base58_layout"
          /\ Len(arg.data) \in {33, 34} /\ arg.data[1] \notin PrivkeyVersions)
        => (res.tag = "Err" /\ res.err = InvalidVersion(<<arg.data[1]>>))

C3_Witness ==
    /\ op = "Address::from_base58_layout"
    /\ Len(arg.data) = 21
    /\ arg.data[1] = 128
    /\ res.tag = "Err"
    /\ res.err.kind = "InvalidVersion"

\* C4: an Address payload whose length is not 21 and a Privkey payload whose
\* length is neither 33 nor 34 decode to InvalidLength(n), n the length of
\* the payload, whatever its bytes.
C4_LengthBoundary ==
    /\ (op = "Address::from_base58_layout" /\ Len(arg.data) # 21)
        => (res.tag = "Err" /\ res.err = InvalidLength(Len(arg.data)))
    /\ (op = "Privkey::from_base58_layout" /\ Len(arg.data) \notin {33, 34})
        => (res.tag = "Err" /\ res.err = InvalidLength(Len(arg.data)))

C4_Witness ==
    /\ op = "Address::from_base58_layout"
    /\ Len(arg.data) = 22
    /\ arg.data[1] = 0
    /\ res.tag = "Err"
    /\ res.err = InvalidLength(22)

\* bytes 1..33 of a payload are a legal scalar: nonzero and below the order
LegalScalar(s) ==
    ~IsZero(s) /\ LexLess(s, CurveOrder)

BadSecretPayload ==
    /\ op = "Privkey::from_base58_layout"
    /\ Len(arg.data) \in {33, 34}
    /\ arg.data[1] \in PrivkeyVersions
    /\ ~LegalScalar(SubSeq(arg.data, 2, 33))

C6_ScriptShape ==
    op = "Address::script_pubkey" =>
        /\ arg.addr.ty = "PubkeyHash"
            => res = <<118, 169, 20>> \o arg.addr.hash \o <<136, 172>>
        /\ arg.addr.ty = "ScriptHash"
            => res = <<169, 20>> \o arg.addr.hash \o <<135>>

C6_Witness ==
    /\ op = "Address::script_pubkey"
    /\ arg.addr.ty = "PubkeyHash"
    /\ arg.addr.network = "Testnet"
    /\ Len(res) = 25

\* C7: to_address fails with the curve error and yields no Address when the
\* public key cannot be derived; otherwise it yields an Address of kind
\* PubkeyHash on the key's network whose hash is the hash160 of the derived
\* public key, serialized compressed exactly when the key is compressed.
C7_ToAddress ==
    op = "Privkey::to_address" =>
        LET pk == PublicKey_from_secret_key(arg.caps, arg.key.key) IN
        /\ pk.tag = "Err"
            => (res.tag = "Err" /\ res.err.kind = "Secp")
        /\ pk.tag = "Ok" =>
            /\ res.tag = "Ok"
            /\ res.val.ty = "PubkeyHash"
            /\ res.val.network = arg.key.network
            /\ arg.key.compressed =>
                 /\ Len(serialize_vec(pk.val, TRUE)) = 33
                 /\ res.val.hash
                      = Hash160_from_data(serialize_vec(pk.val, TRUE))
            /\ ~arg.key.compressed =>
                 /\ Len(serialize_vec(pk.val, FALSE)) = 65
                 /\ res.val.hash
                      = Hash160_from_data(serialize_vec(pk.val, FALSE))

C7_Witness ==
    /\ op = "Privkey::to_address"
    /\ arg.caps = "Full"
    /\ arg.key.compressed
    /\ arg.key.network = "Testnet"
    /\ res.tag = "Ok"

\* C8: both decoders return a success value or an error for every payload of
\* every length, the empty one included, and read no index outside the
\* payload.
C8_DecodeTotal ==
    op \in {"Address::from_base58_layout", "Privkey::from_base58_layout"} =>
        /\ res.tag \in {"Ok", "Err"}
        /\ res.reads \subseteq 0..(Len(arg.data) - 1)
        /\ res.tag = "Err"
            => res.err.kind \in {"InvalidLength", "InvalidVersion", "Other"}

C8_Witness ==
    /\ op = "Privkey::from_base58_layout"
    /\ arg.data = <<>>
    /\ res.tag = "Err"
    /\ res.reads = {}

\* C9: every payload that decodes successfully as a Privkey is reproduced
\* exactly by encoding the decoded key.
C9_CanonicalReencoding ==
    (op = "Privkey::from_base58_layout" /\ res.tag = "Ok")
        => Privkey_base58_layout(res.val) = arg.data

Count(ts, P(_)) ==
    Cardinality({i \in 1..Len(ts) : P(ts[i])})

\* C10: the mtp of MtpAndHeight::new is the 6th smallest of the 11
\* timestamps: one of the inputs, with at most 5 inputs below it, at least 6
\* inputs <= it and at least 6 inputs >= it; it is the same for permuted
\* inputs; the height is the height passed in.
C10_Median ==
    op = "MtpAndHeight::new" =>
        LET ts == arg.timestamps
            m  == res.mtp
        IN  /\ \E i \in 1..MTP_LEN : ts[i] = m
            /\ Count(ts, LAMBDA t : t <= m) >= 6
            /\ Count(ts, LAMBDA t : t >= m) >= 6
            /\ Count(ts, LAMBDA t : t < m) <= 5
            /\ \A p \in {[i \in 1..MTP_LEN |-> MTP_LEN + 1 - i],
                         [i \in 1..MTP_LEN |-> (i % MTP_LEN) + 1],
                         [i \in 1..MTP_LEN |->
                             IF i = 5 THEN 6 ELSE IF i = 6 THEN 5 ELSE i]} :
                   MtpAndHeight_new(arg.height, Permute(ts, p)).mtp = m
            /\ res.height = arg.height

\* an input that is not in ascending order and whose middle element is not
\* the median
C10_Witness ==
    /\ op = "MtpAndHeight::new"
    /\ arg.timestamps[6] # res.mtp
    /\ \E i \in 1..(MTP_LEN - 1) : arg.timestamps[i] > arg.timestamps[i + 1]
    /\ arg.height = 1000

====
